---- MODULE Spec2Model ----
(***************************************************************************)
(* Model of LLDB_Formatters/templates/static/common.js: the shared         *)
(* browser-side utilities of the visualizers (theme toggle, icon           *)
(* injection, PNG/JSON export, colour reset and node search, info panel).  *)
(* Every handler runs to completion on the UI thread, so each handler is   *)
(* one action.  JavaScript strings that the code inspects character by     *)
(* character (queries, labels, titles, button text) are sequences of       *)
(* one-character strings.                                                  *)
(***************************************************************************)
EXTENDS Naturals, Integers, Sequences, FiniteSets, TLC

VARIABLES
  \* ---- the page's graph globals (provided by the visualizer page)
  nodesPresent,   \* the global `nodes` is truthy
  nodes,          \* the node DataSet: id -> [label, hasTitle, title, color]
  edgesPresent,   \* the global `edges` is truthy
  edges,          \* the edge DataSet: id -> [color]
  network,        \* the rendering-engine handle: "absent", "nocanvas", "noframe", "ok"
  selection,      \* the rendering engine's selected node ids
  nodeInfo,       \* #node-info: "absent", or its style.display ("block", "none")
  searchInput,    \* #search-input: [present, value]
  \* ---- theme
  pc,             \* page life cycle: "start" -> "script" -> "ready"
  storeAvailable, \* localStorage can be used (otherwise every access throws)
  store,          \* localStorage entry "theme": NoEntry, "light" or "dark"
  bodyLight,      \* document.body carries class "light-theme"
  loadIsLight,    \* the IIFE's `isLight`, captured by its DOMContentLoaded listener
  themeBtn,       \* #theme-toggle-btn: [present, icon, text]
  \* ---- icon buttons
  buttons,        \* the controls btn-<key> of the page: key -> child nodes
  \* ---- info panel
  infoBox,        \* #info-box: [present, hidden]
  toggleBtn,      \* #toggle-info-btn: [present, infoVisible, html, title]
  \* ---- exports
  downloads,      \* the downloads the browser started, in order
  liveUrls,       \* object URLs created and not yet revoked
  \* ---- observation of the last handler that ran
  last,           \* [op, query, nodeUpdates, edgeUpdates, warnings, errors, thrown, started]
  \* ---- history kept for the properties
  themeToggles,   \* number of toggleTheme() calls so far (capped)
  themeBefore1,   \* <<store, theme button>> before the last toggleTheme()
  themeBefore2,   \* <<store, theme button>> before the toggleTheme() before that
  infoToggles,    \* number of toggleInfoBox() calls so far (capped)
  infoInitial,    \* <<infoBox, toggleBtn>> as DOMContentLoaded left them
  applyCalls,     \* number of applyIcons() runs so far (capped)
  buttonsBefore   \* `buttons` before the last applyIcons() run

graphVars  == <<nodesPresent, nodes, edgesPresent, edges, network, selection,
                nodeInfo, searchInput>>
themeVars  == <<pc, storeAvailable, store, bodyLight, loadIsLight, themeBtn>>
infoVars   == <<infoBox, toggleBtn>>
exportVars == <<downloads, liveUrls>>
histVars   == <<themeToggles, themeBefore1, themeBefore2, infoToggles, infoInitial,
                applyCalls, buttonsBefore>>
vars == <<graphVars, themeVars, buttons, infoVars, exportVars, last, histVars>>

----------------------------------------------------------------------------
\* Bounds of the model.
MaxNodes     == 2   \* node ids are 1..MaxNodes
MaxQueryLen  == 2   \* longest search query tried
MaxToggles   == 4   \* toggleTheme / toggleInfoBox calls counted
MaxApply     == 2   \* applyIcons runs counted
MaxButtons   == 1   \* btn-<key> controls on the page
MaxDownloads == 2   \* downloads recorded
MaxUrls      == 2   \* object URLs that can be live at once

----------------------------------------------------------------------------
\* colorPalette (the entries the functions of this file use, and the
\* "selected" entries a visualizer page paints with).
nodeDefault        == "#7aa2f7"
nodeBorder         == "#565f89"
nodeSelected       == "#bb9af7"
nodeSelectedBorder == "#9d7cd8"
nodeSearchResult   == "#f7768e"
nodeSearchBorder   == "#e06b83"
edgeDefault        == "#565f89"
edgeSelected       == "#bb9af7"

DefaultNodeColor  == [background |-> nodeDefault, border |-> nodeBorder]
SelectedNodeColor == [background |-> nodeSelected, border |-> nodeSelectedBorder]
SearchNodeColor   == [background |-> nodeSearchResult, border |-> nodeSearchBorder]
DefaultEdgeColor  == [color |-> edgeDefault]
SelectedEdgeColor == [color |-> edgeSelected]

\* svgIcons: the keys of the icon registry.
svgIcons == {"theme", "expand", "collapse", "center", "clear", "png", "json",
             "play", "pause", "stop", "step"}

----------------------------------------------------------------------------
\* What a handler did, as seen from outside.
Event(op) == [op |-> op, query |-> <<>>, nodeUpdates |-> 0, edgeUpdates |-> 0,
              warnings |-> 0, errors |-> 0, thrown |-> FALSE, started |-> 0]

----------------------------------------------------------------------------
\* JavaScript string operations.
RECURSIVE TrimStart(_)
TrimStart(s) == IF s # <<>> /\ Head(s) = " " THEN TrimStart(Tail(s)) ELSE s

RECURSIVE TrimEnd(_)
TrimEnd(s) == IF s # <<>> /\ s[Len(s)] = " " THEN TrimEnd(SubSeq(s, 1, Len(s) - 1)) ELSE s

\* String.prototype.trim
Trim(s) == TrimEnd(TrimStart(s))

LowerChar(c) == CASE c = "A" -> "a" [] c = "B" -> "b" [] OTHER -> c

\* String.prototype.toLowerCase
ToLowerCase(s) == [i \in 1..Len(s) |-> LowerChar(s[i])]

\* s starts with q
StartsWith(s, q) == Len(q) <= Len(s) /\ SubSeq(s, 1, Len(q)) = q

\* String.prototype.includes: scan s for q from the left
RECURSIVE Includes(_, _)
Includes(s, q) ==
  IF StartsWith(s, q) THEN TRUE
  ELSE IF s = <<>> THEN FALSE
  ELSE Includes(Tail(s), q)

----------------------------------------------------------------------------
\* The node and edge DataSets.

\* DataSet.update(list): a record whose id is in the set is merged with the
\* update, an id that is not in the set is added as a new record.
DataSetUpdate(ds, updates, fresh) ==
  [id \in DOMAIN ds \cup DOMAIN updates |->
     IF id \in DOMAIN updates
     THEN IF id \in DOMAIN ds THEN [ds[id] EXCEPT !.color = updates[id]]
          ELSE [fresh EXCEPT !.color = updates[id]]
     ELSE ds[id]]

\* a record created by an update that carries only id and color
FreshNode == [label |-> <<>>, hasTitle |-> FALSE, title |-> <<>>, color |-> DefaultNodeColor]
FreshEdge == [color |-> DefaultEdgeColor]

\* an alternative key: the id after the record's own
UpdateKeyNext(id) == id + 1

\* the `id` an update item is keyed by (id: id, id: node.id)
UpdateKey(id) == id

\* the list of updates {id, color} for the records `ids`
ColorUpdates(ids, color) ==
  [k \in {UpdateKey(id) : id \in ids} |-> color]

\* an alternative guard: gives up only when both collections are missing
ResetSkippedIfBothAbsent == ~nodesPresent /\ ~edgesPresent

\* resetColors: `if (!nodes || !edges) return;`
ResetSkipped == ~nodesPresent \/ ~edgesPresent

\* resetColors: the node DataSet after the call
NodesAfterReset ==
  IF ResetSkipped \/ DOMAIN nodes = {} THEN nodes
  ELSE DataSetUpdate(nodes, ColorUpdates(DOMAIN nodes, DefaultNodeColor), FreshNode)

\* resetColors: the edge DataSet after the call
EdgesAfterReset ==
  IF ResetSkipped \/ DOMAIN edges = {} THEN edges
  ELSE DataSetUpdate(edges, ColorUpdates(DOMAIN edges, DefaultEdgeColor), FreshEdge)

\* resetColors: number of nodes.update / edges.update calls it issues
NodeUpdatesOfReset == IF ResetSkipped \/ DOMAIN nodes = {} THEN 0 ELSE 1
EdgeUpdatesOfReset == IF ResetSkipped \/ DOMAIN edges = {} THEN 0 ELSE 1

\* searchNodes: the filter handed to nodes.get
SearchFilter(node, query) ==
  \/ Includes(ToLowerCase(node.label), ToLowerCase(query))
  \/ /\ node.hasTitle /\ node.title # <<>>
     /\ Includes(ToLowerCase(node.title), ToLowerCase(query))

\* hideNodeInfo
HideNodeInfo(ni) == IF ni = "absent" THEN ni ELSE "none"

ResetColors ==
  /\ nodes' = NodesAfterReset
  /\ edges' = EdgesAfterReset
  /\ last' = [Event("resetColors") EXCEPT !.nodeUpdates = NodeUpdatesOfReset,
                                          !.edgeUpdates = EdgeUpdatesOfReset]
  /\ UNCHANGED <<nodesPresent, edgesPresent, network, selection, nodeInfo, searchInput>>
  /\ UNCHANGED <<themeVars, buttons, infoVars, exportVars, histVars>>

ClearHighlights ==
  /\ nodes' = NodesAfterReset
  /\ edges' = EdgesAfterReset
  /\ searchInput' = IF searchInput.present THEN [searchInput EXCEPT !.value = <<>>]
                    ELSE searchInput
  /\ last' = [Event("clearHighlights") EXCEPT !.nodeUpdates = NodeUpdatesOfReset,
                                              !.edgeUpdates = EdgeUpdatesOfReset]
  /\ UNCHANGED <<nodesPresent, edgesPresent, network, selection, nodeInfo>>
  /\ UNCHANGED <<themeVars, buttons, infoVars, exportVars, histVars>>

ClearSelection ==
  /\ IF network # "absent"
     THEN /\ selection' = {}
          /\ nodes' = NodesAfterReset
          /\ edges' = EdgesAfterReset
          /\ nodeInfo' = HideNodeInfo(nodeInfo)
          /\ last' = [Event("clearSelection") EXCEPT !.nodeUpdates = NodeUpdatesOfReset,
                                                     !.edgeUpdates = EdgeUpdatesOfReset]
     ELSE /\ last' = Event("clearSelection")
          /\ UNCHANGED <<selection, nodes, edges, nodeInfo>>
  /\ UNCHANGED <<nodesPresent, edgesPresent, network, searchInput>>
  /\ UNCHANGED <<themeVars, buttons, infoVars, exportVars, histVars>>

SearchNodes(query) ==
  /\ IF ~nodesPresent
     THEN /\ last' = [Event("searchNodes") EXCEPT !.query = query]
          /\ UNCHANGED <<nodes, edges>>
     ELSE LET base     == NodesAfterReset
              blank    == Trim(query) = <<>>
              matching == {id \in DOMAIN base : SearchFilter(base[id], query)}
              recolour == ~blank /\ matching # {}
          IN /\ nodes' = IF recolour
                         THEN DataSetUpdate(base, ColorUpdates(matching, SearchNodeColor),
                                            FreshNode)
                         ELSE base
             /\ edges' = EdgesAfterReset
             /\ last' = [Event("searchNodes") EXCEPT
                           !.query = query,
                           !.nodeUpdates = NodeUpdatesOfReset + (IF recolour THEN 1 ELSE 0),
                           !.edgeUpdates = EdgeUpdatesOfReset]
  /\ UNCHANGED <<nodesPresent, edgesPresent, network, selection, nodeInfo, searchInput>>
  /\ UNCHANGED <<themeVars, buttons, infoVars, exportVars, histVars>>

----------------------------------------------------------------------------
\* Theme manager.

\* localStorage holds no entry "theme"
NoEntry == "<none>"

\* an alternative value: always the light preference
ThemeValueLight(isLight) == "light"

\* toggleTheme: the value written, `isLight ? "light" : "dark"`
ThemeValue(isLight) == IF isLight THEN "light" ELSE "dark"

\* an alternative name: the mode that is showing
ThemeNameCurrent(isLight) == IF isLight THEN "Light" ELSE "Dark"

\* updateThemeButton: `isLight ? "Dark" : "Light"`
ThemeName(isLight) == IF isLight THEN "Dark" ELSE "Light"

\* updateThemeButton: the button's content afterwards
UpdateThemeButton(btn, isLight) ==
  IF btn.present
  THEN [btn EXCEPT !.icon = "theme",
                   !.text = "Switch to " \o ThemeName(isLight) \o " Theme"]
  ELSE btn

\* the IIFE: `localStorage.getItem("theme") || "dark"`, "dark" when the read throws
SavedTheme(available, entry) ==
  IF available /\ entry # NoEntry THEN entry ELSE "dark"

\* the IIFE at script load (before the DOM is complete)
ScriptLoad ==
  /\ pc = "start"
  /\ pc' = "script"
  /\ loadIsLight' = (SavedTheme(storeAvailable, store) = "light")
  /\ bodyLight' = (bodyLight \/ loadIsLight')
  /\ last' = [Event("load") EXCEPT !.warnings = IF storeAvailable THEN 0 ELSE 1]
  /\ UNCHANGED <<storeAvailable, store, themeBtn>>
  /\ UNCHANGED <<graphVars, buttons, infoVars, exportVars, histVars>>

ToggleTheme ==
  /\ pc = "ready"
  /\ themeToggles < MaxToggles
  /\ LET isLight == ~bodyLight IN
       /\ bodyLight' = isLight
       /\ store' = IF storeAvailable THEN ThemeValue(isLight) ELSE store
       /\ themeBtn' = UpdateThemeButton(themeBtn, isLight)
       /\ last' = [Event("toggleTheme") EXCEPT !.warnings = IF storeAvailable THEN 0 ELSE 1]
  /\ themeToggles' = themeToggles + 1
  /\ themeBefore1' = <<store, themeBtn>>
  /\ themeBefore2' = themeBefore1
  /\ UNCHANGED <<pc, storeAvailable, loadIsLight>>
  /\ UNCHANGED <<graphVars, buttons, infoVars, exportVars>>
  /\ UNCHANGED <<infoToggles, infoInitial, applyCalls, buttonsBefore>>

----------------------------------------------------------------------------
\* Icon injector.  A control's content is the sequence of its child nodes:
\* text nodes, elements holding text, and icon spans (an svg holds no text).
TextNode(chars) == [kind |-> "text", icon |-> "", text |-> chars]
ElemNode(chars) == [kind |-> "elem", icon |-> "", text |-> chars]
IconSpan(key)   == [kind |-> "icon", icon |-> key, text |-> <<>>]

\* Node.textContent: the text of all descendants, in order
RECURSIVE TextContent(_)
TextContent(content) ==
  IF content = <<>> THEN <<>> ELSE Head(content).text \o TextContent(Tail(content))

\* an alternative: keeps the children the control already has
IconisedKeeping(key, content) == <<IconSpan(key)>> \o content

\* applyIcons: the content `<span class="button-icon">${svg}</span> ${originalText}`
\* parsed into the control
Iconised(key, content) ==
  <<IconSpan(key), TextNode(<<" ">> \o Trim(TextContent(content)))>>

\* applyIcons: every registry entry whose control exists
ApplyIconsTo(bs) ==
  [k \in DOMAIN bs |-> IF k \in svgIcons THEN Iconised(k, bs[k]) ELSE bs[k]]

ApplyIcons ==
  /\ pc = "ready"
  /\ applyCalls < MaxApply
  /\ buttons' = ApplyIconsTo(buttons)
  /\ applyCalls' = applyCalls + 1
  /\ buttonsBefore' = buttons
  /\ last' = Event("applyIcons")
  /\ UNCHANGED <<graphVars, themeVars, infoVars, exportVars>>
  /\ UNCHANGED <<themeToggles, themeBefore1, themeBefore2, infoToggles, infoInitial>>

----------------------------------------------------------------------------
\* Info panel.  "gear" and "arrow" name the two glyphs the button shows.

\* an alternative: the tooltip is left as it was
ToggleBtnKeepTitle(btn, hidden) ==
  IF hidden THEN [btn EXCEPT !.infoVisible = FALSE, !.html = "gear"]
  ELSE [btn EXCEPT !.infoVisible = TRUE, !.html = "arrow"]

\* toggleInfoBox: the button for a panel that is now hidden / now visible
ToggleBtnFor(btn, hidden) ==
  IF hidden
  THEN [btn EXCEPT !.infoVisible = FALSE, !.html = "gear", !.title = "Show Info Panel"]
  ELSE [btn EXCEPT !.infoVisible = TRUE, !.html = "arrow", !.title = "Hide Info Panel"]

ToggleInfoBox ==
  /\ pc = "ready"
  /\ infoToggles < MaxToggles
  /\ IF ~infoBox.present \/ ~toggleBtn.present
     THEN UNCHANGED <<infoBox, toggleBtn>>
     ELSE /\ infoBox' = [infoBox EXCEPT !.hidden = ~infoBox.hidden]
          /\ toggleBtn' = ToggleBtnFor(toggleBtn, infoBox'.hidden)
  /\ infoToggles' = infoToggles + 1
  /\ last' = Event("toggleInfoBox")
  /\ UNCHANGED <<graphVars, themeVars, buttons, exportVars>>
  /\ UNCHANGED <<themeToggles, themeBefore1, themeBefore2, infoInitial, applyCalls,
                 buttonsBefore>>

\* The two DOMContentLoaded listeners, run in the order they were registered:
\* the IIFE's (theme button label, icons) and the initial UI state setup.
DOMContentLoaded ==
  /\ pc = "script"
  /\ pc' = "ready"
  /\ themeBtn' = UpdateThemeButton(themeBtn, loadIsLight)
  /\ buttons' = ApplyIconsTo(buttons)
  /\ applyCalls' = 1
  /\ buttonsBefore' = buttons
  /\ IF infoBox.present /\ toggleBtn.present
     THEN /\ infoBox' = [infoBox EXCEPT !.hidden = TRUE]
          /\ toggleBtn' = [toggleBtn EXCEPT !.infoVisible = FALSE, !.html = "gear",
                                            !.title = "Show Info Panel"]
     ELSE UNCHANGED <<infoBox, toggleBtn>>
  /\ infoInitial' = <<infoBox', toggleBtn'>>
  /\ last' = Event("DOMContentLoaded")
  /\ UNCHANGED <<storeAvailable, store, bodyLight, loadIsLight>>
  /\ UNCHANGED <<graphVars, exportVars>>
  /\ UNCHANGED <<themeToggles, themeBefore1, themeBefore2, infoToggles>>

----------------------------------------------------------------------------
\* Export utilities.

\* JavaScript values handed to exportJSON: a leaf, or an object whose
\* properties (f) are leaves.
NoFields     == <<>>
JsUndefined  == [t |-> "undefined", v |-> "", f |-> NoFields]
JsNull       == [t |-> "null", v |-> "", f |-> NoFields]
JsTrue       == [t |-> "boolean", v |-> "true", f |-> NoFields]
JsNaN        == [t |-> "number", v |-> "NaN", f |-> NoFields]
JsNum(n)     == [t |-> "number", v |-> n, f |-> NoFields]
JsStr(x)     == [t |-> "string", v |-> x, f |-> NoFields]
JsObject(fs) == [t |-> "object", v |-> "", f |-> fs]

\* property names, in insertion order
KeyOrder == <<"a", "b">>

\* The text of a JSON document, as its sequence of lexical tokens.
Tok(k, x) == [k |-> k, s |-> x]

\* JSON.stringify of a leaf: NaN is written as null; undefined has no text
LeafText(val) ==
  CASE val.t = "null"    -> <<Tok("lit", "null")>>
    [] val.t = "boolean" -> <<Tok("lit", val.v)>>
    [] val.t = "number"  -> IF val.v = "NaN" THEN <<Tok("lit", "null")>>
                            ELSE <<Tok("num", val.v)>>
    [] val.t = "string"  -> <<Tok("str", val.v)>>

\* JSON.stringify of an object's members from position i of KeyOrder on:
\* a property whose value is undefined is left out
RECURSIVE MembersText(_, _, _)
MembersText(fs, i, first) ==
  IF i > Len(KeyOrder) THEN <<>>
  ELSE LET key == KeyOrder[i] IN
       IF key \notin DOMAIN fs \/ fs[key].t = "undefined"
       THEN MembersText(fs, i + 1, first)
       ELSE (IF first THEN <<>> ELSE <<Tok("punct", ",")>>)
            \o <<Tok("ws", "\n  "), Tok("str", key), Tok("punct", ":"), Tok("ws", " ")>>
            \o LeafText(fs[key])
            \o MembersText(fs, i + 1, FALSE)

\* an alternative: every value is written as null
StringifyAsNull(val) == [defined |-> TRUE, text |-> <<Tok("lit", "null")>>]

\* JSON.stringify(dataToExport, null, 2): the text, or undefined
Stringify(val) ==
  IF val.t = "undefined" THEN [defined |-> FALSE, text |-> <<>>]
  ELSE IF val.t = "object"
  THEN LET members == MembersText(val.f, 1, TRUE) IN
       [defined |-> TRUE,
        text |-> IF members = <<>> THEN <<Tok("punct", "{"), Tok("punct", "}")>>
                 ELSE <<Tok("punct", "{")>> \o members
                      \o <<Tok("ws", "\n"), Tok("punct", "}")>>]
  ELSE [defined |-> TRUE, text |-> LeafText(val)]

\* new Blob([text]): a part that is undefined is stored as the text "undefined"
BlobText(str) == IF str.defined THEN str.text ELSE <<Tok("ident", "undefined")>>

\* URL.revokeObjectURL(url)
RevokeObjectURL(urls, u) == urls \ {u}

\* an alternative: a handle is enough
CanvasAvailableIfHandle(net) == net # "absent"

\* exportPNG: `network && network.canvas && network.canvas.frame`
CanvasAvailable(net) == net = "ok"

\* the parameter default `filename = "data.json"`
FileName(filename) == IF filename = "<undefined>" THEN "data.json" ELSE filename

ExportPNG ==
  /\ IF ~CanvasAvailable(network)
     THEN /\ last' = [Event("exportPNG") EXCEPT !.errors = 1]
          /\ UNCHANGED downloads
     ELSE IF network = "ok"
     THEN /\ Len(downloads) < MaxDownloads
          /\ downloads' = Append(downloads,
                                 [kind |-> "png", name |-> "visualization.png",
                                  text |-> <<Tok("ident", "image/png")>>,
                                  data |-> JsUndefined, filename |-> "visualization.png"])
          /\ last' = [Event("exportPNG") EXCEPT !.started = Len(downloads') - Len(downloads)]
     ELSE \* reading .frame or .canvas of undefined: a TypeError leaves the handler
          /\ last' = [Event("exportPNG") EXCEPT !.thrown = TRUE]
          /\ UNCHANGED downloads
  /\ UNCHANGED liveUrls
  /\ UNCHANGED <<graphVars, themeVars, buttons, infoVars, histVars>>

ExportJSON(dataToExport, filename) ==
  /\ Len(downloads) < MaxDownloads
  /\ (1..MaxUrls) \ liveUrls # {}
  /\ LET blob == BlobText(Stringify(dataToExport))
         url  == CHOOSE u \in (1..MaxUrls) \ liveUrls : TRUE
     IN /\ downloads' = Append(downloads,
                               [kind |-> "json", name |-> FileName(filename), text |-> blob,
                                data |-> dataToExport, filename |-> filename])
        /\ liveUrls' = RevokeObjectURL(liveUrls \cup {url}, url)
  /\ last' = [Event("exportJSON") EXCEPT !.started = Len(downloads') - Len(downloads)]
  /\ UNCHANGED <<graphVars, themeVars, buttons, infoVars, histVars>>

----------------------------------------------------------------------------
\* Initial states.

\* the characters queries are made of, and the node texts they are matched with
QueryChars == {"a", "B", " "}
Queries    == UNION {[1..n -> QueryChars] : n \in 0..MaxQueryLen}
NodeTexts ==
  { [label |-> <<"A", "b">>, hasTitle |-> FALSE, title |-> <<>>],
    [label |-> <<"b">>, hasTitle |-> FALSE, title |-> <<>>],
    [label |-> <<"b">>, hasTitle |-> TRUE, title |-> <<"B", "a">>] }
\* a graph of up to MaxNodes nodes, painted in one colour by the page
Painted(texts, c) ==
  [id \in DOMAIN texts |->
     [label |-> texts[id].label, hasTitle |-> texts[id].hasTitle,
      title |-> texts[id].title, color |-> c]]
NodeSets ==
  {Painted(texts, c) : texts \in UNION {[1..n -> NodeTexts] : n \in 0..MaxNodes},
                       c \in {DefaultNodeColor, SelectedNodeColor}}
EdgeIds  == {1}
EdgeSets ==
  UNION {[S -> {[color |-> c] : c \in {DefaultEdgeColor, SelectedEdgeColor}}] :
           S \in SUBSET EdgeIds}

\* the data and file names exportJSON is called with
Leaves     == {JsNull, JsTrue, JsNum("1"), JsStr("x"), JsNaN, JsUndefined}
Properties == {JsNum("1"), JsNaN, JsUndefined}
ExportData ==
  Leaves \cup {JsObject(fs) : fs \in UNION {[S -> Properties] : S \in SUBSET {"a", "b"}}}
FileNames  == {"x.json", "<undefined>"}

\* static content of a btn-<key> control
StaticContents ==
  { <<>>,
    <<TextNode(<<"G", "o">>)>>,
    <<TextNode(<<" ", "G", " ", "o", " ">>)>>,
    <<ElemNode(<<"G">>), TextNode(<<" ", "o">>)>> }
ButtonSets ==
  UNION {[S -> StaticContents] : S \in {T \in SUBSET svgIcons : Cardinality(T) <= MaxButtons}}

AbsentThemeBtn  == [present |-> FALSE, icon |-> "", text |-> ""]
StaticThemeBtn  == [present |-> TRUE, icon |-> "", text |-> "Theme"]
AbsentInfoBox   == [present |-> FALSE, hidden |-> FALSE]
AbsentToggleBtn == [present |-> FALSE, infoVisible |-> FALSE, html |-> "", title |-> ""]
StaticToggleBtn == [present |-> TRUE, infoVisible |-> TRUE, html |-> "info", title |-> ""]

\* the pages the graph functions run in: with or without the rendering-engine
\* handle, the node-info panel and the search field
PageKinds ==
  { [network |-> "ok", nodeInfo |-> "block",
     searchInput |-> [present |-> TRUE, value |-> <<"a", "B">>]],
    [network |-> "ok", nodeInfo |-> "absent",
     searchInput |-> [present |-> FALSE, value |-> <<>>]],
    [network |-> "absent", nodeInfo |-> "block",
     searchInput |-> [present |-> TRUE, value |-> <<"a", "B">>]] }

\* no graph has been handed to the page
GraphIdle ==
  /\ nodesPresent = FALSE /\ nodes = <<>>
  /\ edgesPresent = FALSE /\ edges = <<>>
  /\ network = "absent" /\ selection = {} /\ nodeInfo = "absent"
  /\ searchInput = [present |-> FALSE, value |-> <<>>]

\* a page with none of the optional theme, icon and panel controls
ThemeIdle == /\ storeAvailable = TRUE /\ store = NoEntry /\ bodyLight = FALSE
             /\ loadIsLight = FALSE /\ themeBtn = AbsentThemeBtn
IconsIdle == buttons = <<>>
InfoIdle  == infoBox = AbsentInfoBox /\ toggleBtn = AbsentToggleBtn
ExportIdle == downloads = <<>> /\ liveUrls = {}

HistInit ==
  /\ themeToggles = 0
  /\ themeBefore1 = <<store, themeBtn>>
  /\ themeBefore2 = <<store, themeBtn>>
  /\ infoToggles = 0
  /\ infoInitial = <<infoBox, toggleBtn>>
  /\ applyCalls = 0
  /\ buttonsBefore = buttons
  /\ last = Event("none")

\* a visualizer page after load, with any graph and any colours painted on it
InitGraph ==
  /\ nodesPresent \in BOOLEAN
  /\ nodes \in (IF nodesPresent THEN NodeSets ELSE {<<>>})
  /\ edgesPresent \in BOOLEAN
  /\ edges \in (IF edgesPresent THEN EdgeSets ELSE {<<>>})
  /\ \E kind \in PageKinds :
       /\ network = kind.network
       /\ nodeInfo = kind.nodeInfo
       /\ searchInput = kind.searchInput
  /\ selection = IF nodeInfo = "block" /\ 1 \in DOMAIN nodes THEN {1} ELSE {}
  /\ pc = "ready" /\ ThemeIdle /\ IconsIdle /\ InfoIdle /\ ExportIdle /\ HistInit

\* a page about to run the script, with any stored preference and any of
\* the theme and panel controls
InitPage ==
  /\ pc = "start"
  /\ storeAvailable \in BOOLEAN
  /\ store \in {NoEntry, "light", "dark"}
  /\ bodyLight = FALSE
  /\ loadIsLight = FALSE
  /\ themeBtn \in {AbsentThemeBtn, StaticThemeBtn}
  /\ infoBox \in {AbsentInfoBox} \cup {[present |-> TRUE, hidden |-> h] : h \in BOOLEAN}
  /\ toggleBtn \in {AbsentToggleBtn, StaticToggleBtn}
  /\ GraphIdle /\ IconsIdle /\ ExportIdle /\ HistInit

\* a page about to run the script, with any of the btn-<key> controls
InitIcons ==
  /\ pc = "start"
  /\ buttons \in ButtonSets
  /\ GraphIdle /\ ThemeIdle /\ InfoIdle /\ ExportIdle /\ HistInit

\* a page after load, with any state of the rendering-engine handle
InitExport ==
  /\ pc = "ready"
  /\ network \in {"absent", "nocanvas", "noframe", "ok"}
  /\ nodesPresent = FALSE /\ nodes = <<>>
  /\ edgesPresent = FALSE /\ edges = <<>>
  /\ selection = {} /\ nodeInfo = "absent"
  /\ searchInput = [present |-> FALSE, value |-> <<>>]
  /\ ThemeIdle /\ IconsIdle /\ InfoIdle /\ ExportIdle /\ HistInit

----------------------------------------------------------------------------
\* Specifications.
NextGraph ==
  \/ ResetColors
  \/ ClearHighlights
  \/ ClearSelection
  \/ \E query \in Queries : SearchNodes(query)

NextPage ==
  \/ ScriptLoad
  \/ DOMContentLoaded
  \/ ToggleTheme
  \/ ToggleInfoBox

NextIcons ==
  \/ ScriptLoad
  \/ DOMContentLoaded
  \/ ApplyIcons

NextExport ==
  \/ ExportPNG
  \/ \E dataToExport \in ExportData, filename \in FileNames :
       ExportJSON(dataToExport, filename)

SpecGraph  == InitGraph /\ [][NextGraph]_vars
SpecPage   == InitPage /\ [][NextPage]_vars
SpecIcons  == InitIcons /\ [][NextIcons]_vars
SpecExport == InitExport /\ [][NextExport]_vars

\* The whole page: the four specifications above are its restrictions to the
\* controls and globals of one group of functions.
Init == InitGraph \/ InitPage \/ InitIcons \/ InitExport
Next == NextGraph \/ NextPage \/ NextIcons \/ NextExport
Spec == Init /\ [][Next]_vars

----------------------------------------------------------------------------
\* Notions the properties are stated with.

\* q occurs in s, letters compared without regard to case
ContainsIgnoringCase(s, q) ==
  \E i \in 0..Len(s) :
    /\ i + Len(q) <= Len(s)
    /\ \A j \in 1..Len(q) : LowerChar(s[i + j]) = LowerChar(q[j])

\* the query has a character that is not white space
NonBlank(q) == \E i \in 1..Len(q) : q[i] # " "

\* the node's label or title contains the query
NodeMatches(node, q) ==
  \/ ContainsIgnoringCase(node.label, q)
  \/ node.hasTitle /\ ContainsIgnoringCase(node.title, q)

AllDefault ==
  /\ \A id \in DOMAIN nodes : nodes[id].color = DefaultNodeColor
  /\ \A id \in DOMAIN edges : edges[id].color = DefaultEdgeColor

\* the preference a stored entry stands for: absence is treated as "dark"
Preference(entry) == IF entry = NoEntry THEN "dark" ELSE entry

\* the mode a light/dark mode is the opposite of
OppositeMode(isLight) == IF isLight THEN "Dark" ELSE "Light"

\* the panel and button state, and its inversion
PanelState(box, btn) == <<box.hidden, btn.html, btn.title>>
Inverted(st) ==
  << ~st[1],
     IF st[2] = "gear" THEN "arrow" ELSE "gear",
     IF st[3] = "Show Info Panel" THEN "Hide Info Panel" ELSE "Show Info Panel" >>

IconCount(content) == Cardinality({i \in 1..Len(content) : content[i].kind = "icon"})

\* JSON.parse of a document given by its tokens
JsSyntaxError == [t |-> "SyntaxError", v |-> "", f |-> NoFields]
NoSpace(text) == SelectSeq(text, LAMBDA tk : tk.k # "ws")

ParseLeaf(tk) ==
  CASE tk.k = "lit" /\ tk.s = "null" -> JsNull
    [] tk.k = "lit" /\ tk.s = "true" -> JsTrue
    [] tk.k = "num" -> JsNum(tk.s)
    [] tk.k = "str" -> JsStr(tk.s)
    [] OTHER -> JsSyntaxError

\* the members `"key": leaf [, ...]` between the braces: the properties, or
\* "error" as the value of the key "!" when the text is malformed
RECURSIVE ParseMembers(_, _)
ParseMembers(toks, fs) ==
  IF toks = <<>> THEN fs
  ELSE IF Len(toks) < 3 \/ toks[1].k # "str" \/ toks[2] # Tok("punct", ":")
          \/ ParseLeaf(toks[3]) = JsSyntaxError
  THEN [k \in {"!"} |-> JsSyntaxError]
  ELSE LET got == [k \in DOMAIN fs \cup {toks[1].s} |->
                     IF k = toks[1].s THEN ParseLeaf(toks[3]) ELSE fs[k]]
       IN IF Len(toks) = 3 THEN got
          ELSE IF toks[4] = Tok("punct", ",") /\ Len(toks) > 4
          THEN ParseMembers(SubSeq(toks, 5, Len(toks)), got)
          ELSE [k \in {"!"} |-> JsSyntaxError]

ParseJSON(text) ==
  LET toks == NoSpace(text) IN
  IF Len(toks) = 1 THEN ParseLeaf(toks[1])
  ELSE IF Len(toks) >= 2 /\ toks[1] = Tok("punct", "{") /\ toks[Len(toks)] = Tok("punct", "}")
  THEN LET fs == ParseMembers(SubSeq(toks, 2, Len(toks) - 1), NoFields)
       IN IF "!" \in DOMAIN fs THEN JsSyntaxError ELSE JsObject(fs)
  ELSE JsSyntaxError

\* values JSON can represent: no undefined and no NaN, at the top or in a property
JsonLeaf(val) == val.t \in {"null", "boolean", "string"} \/ (val.t = "number" /\ val.v # "NaN")
JsonRepresentable(val) ==
  IF val.t = "object" THEN \A k \in DOMAIN val.f : JsonLeaf(val.f[k]) ELSE JsonLeaf(val)

----------------------------------------------------------------------------
\* Properties.

\* C1: after searchNodes(query) with a non-blank query, the nodes carrying the
\* search-result colour are exactly the nodes whose label or title contains
\* the query, compared case-insensitively.
C1_SearchColoursExactlyTheMatches ==
  (last.op = "searchNodes" /\ nodesPresent /\ NonBlank(last.query)) =>
    \A id \in DOMAIN nodes :
      (nodes[id].color = SearchNodeColor) <=> NodeMatches(nodes[id], last.query)

\* C2: after searchNodes(query) with an empty or white-space query, every node
\* and every edge has its default colour.
C2_BlankSearchLeavesDefaults ==
  (last.op = "searchNodes" /\ nodesPresent /\ ~NonBlank(last.query)) => AllDefault

C4_InfoBoxParity ==
  pc = "ready" =>
    LET initial == PanelState(infoInitial[1], infoInitial[2])
        now     == PanelState(infoBox, toggleBtn)
    IN IF infoBox.present /\ toggleBtn.present
       THEN /\ initial = <<TRUE, "gear", "Show Info Panel">>
            /\ (infoToggles % 2 = 0 => now = initial)
            /\ (infoToggles % 2 = 1 => now = Inverted(initial))
       ELSE now = initial

C4_Witness ==
  /\ infoToggles = 3 /\ infoBox.present /\ toggleBtn.present
  /\ ~infoBox.hidden /\ toggleBtn.title = "Hide Info Panel"

C6_ExportPNGWithoutCanvas ==
  [][(last'.op = "exportPNG" /\ network # "ok") =>
       /\ downloads' = downloads
       /\ last'.started = 0 /\ ~last'.thrown /\ last'.errors = 1 /\ last'.warnings = 0
       /\ UNCHANGED <<graphVars, themeVars, buttons, infoVars, liveUrls, histVars>>]_vars

C6_Witness ==
  last.op = "exportPNG" /\ network = "noframe" /\ last.errors = 1 /\ downloads = <<>>

\* C7 as stated: a second applyIcons() run re-prepends the icon, so a control
\* btn-<name> then holds duplicated icons and differs from what the first run
\* left.
C7_SecondApplyDuplicatesIcons ==
  applyCalls >= 2 =>
    \A k \in DOMAIN buttons :
      buttons[k] # buttonsBefore[k] /\ IconCount(buttons[k]) >= 2

\* C7 as amended: a second applyIcons() run leaves every control btn-<name> as
\* the first run left it, with one icon followed by its trimmed text.
C7_SecondApplyChangesNothing ==
  applyCalls >= 2 =>
    \A k \in DOMAIN buttons :
      /\ buttons[k] = buttonsBefore[k]
      /\ IconCount(buttons[k]) = 1
      /\ buttons[k][1] = IconSpan(k)

C7_Witness ==
  /\ applyCalls = 2 /\ last.op = "applyIcons"
  /\ \E k \in DOMAIN buttons : TextContent(buttons[k]) = <<" ", "G", " ", "o">>

\* C8: every toggleTheme() call flips the light/dark mode, throws nothing and
\* leaves the toggle button naming the mode opposite to the resulting one,
\* whether or not the preference can be written; when it cannot, a warning is
\* the only further effect and the stored entry is unchanged.
C8_ToggleThemeSurvivesStoreFailure ==
  [][last'.op = "toggleTheme" =>
       /\ bodyLight' = ~bodyLight
       /\ ~last'.thrown /\ last'.errors = 0
       /\ themeBtn'.present =>
            themeBtn'.text = "Switch to " \o OppositeMode(bodyLight') \o " Theme"
       /\ storeAvailable => (last'.warnings = 0 /\ Preference(store') =
                               (IF bodyLight' THEN "light" ELSE "dark"))
       /\ ~storeAvailable => (last'.warnings = 1 /\ store' = store)
       /\ UNCHANGED <<graphVars, buttons, infoVars, exportVars>>]_vars

C8_Witness ==
  /\ last.op = "toggleTheme" /\ ~storeAvailable /\ last.warnings = 1
  /\ bodyLight /\ themeBtn.text = "Switch to Dark Theme" /\ store = "dark"

\* C9: a resetColors() call that follows a resetColors() call changes no
\* colour; with the node or the edge collection absent the call changes nothing
\* and issues no update; no update is issued against an empty collection.
C9_ResetColorsIdempotent ==
  [][last'.op = "resetColors" =>
       /\ (~nodesPresent \/ ~edgesPresent) =>
            (nodes' = nodes /\ edges' = edges
             /\ last'.nodeUpdates = 0 /\ last'.edgeUpdates = 0)
       /\ (nodesPresent /\ edgesPresent) =>
            (\A id \in DOMAIN nodes' : nodes'[id].color = DefaultNodeColor)
            /\ (\A id \in DOMAIN edges' : edges'[id].color = DefaultEdgeColor)
       /\ DOMAIN nodes = {} => last'.nodeUpdates = 0
       /\ DOMAIN edges = {} => last'.edgeUpdates = 0
       /\ last.op = "resetColors" => (nodes' = nodes /\ edges' = edges)]_vars

C9_Witness ==
  /\ last.op = "resetColors" /\ nodesPresent /\ edgesPresent
  /\ DOMAIN nodes = {1, 2} /\ DOMAIN edges = {} /\ AllDefault
  /\ last.nodeUpdates = 1 /\ last.edgeUpdates = 0

\* C10: resetColors, searchNodes, clearHighlights and clearSelection keep the
\* sets of node ids and edge ids and every node's label and title: they only
\* update the colour of records that exist.
C10_OnlyColoursChange ==
  [][/\ DOMAIN nodes' = DOMAIN nodes
     /\ DOMAIN edges' = DOMAIN edges
     /\ \A id \in DOMAIN nodes :
          /\ nodes'[id].label = nodes[id].label
          /\ nodes'[id].hasTitle = nodes[id].hasTitle
          /\ nodes'[id].title = nodes[id].title]_vars

C10_Witness ==
  /\ last.op = "searchNodes" /\ last.nodeUpdates = 2 /\ last.edgeUpdates = 1
  /\ \E id \in DOMAIN nodes : nodes[id].color = SearchNodeColor
  /\ \E id \in DOMAIN nodes : nodes[id].color = DefaultNodeColor

====
